---- MODULE Spec2Model ----
(***************************************************************************)
(* Model of Orchestrator/process_manager.py: the ProcessManager (admission *)
(* queue, active and old sets, monitor thread) and the Process supervisor  *)
(* threads it starts.                                                      *)
(*                                                                         *)
(* Threads are interleaved at the places where they touch shared state:    *)
(* one action per access to the queue, to a Process's fields, to the       *)
(* active/old dictionaries, to the container host or to the state store.   *)
(* Code that only touches a thread's locals is part of the action of the   *)
(* shared access that precedes it.                                         *)
(***************************************************************************)
EXTENDS Integers, Sequences, FiniteSets, TLC

(***************************************************************************)
(* Bounds of the model.                                                    *)
(***************************************************************************)
\* how many submissions schedule_process accepts (the uuid4 values drawn)
MaxIds == 2
\* the wall clock runs over 0..MaxTime
MaxTime == 1
\* how many calls to the state store or to Thread.start may raise in a run
MaxFaults == 1
\* how many submissions QueueSpec accepts
MaxQueued == 4

\* ProcessManager.__init__(max_concurrent_processes): the capacity in use
max_concurrent_processes == 1

Ids == 1..MaxIds
QueuedIds == 1..MaxQueued
Times == 0..MaxTime
Ops == {"op1", "op2"}
Issuers == {"u1", "u2"}
\* image references a caller may name, and those the container host holds
Images == {"sim", "missing"}
HostImages == {"sim"}

(***************************************************************************)
(* Process.CREATED .. Process.HALTED                                       *)
(***************************************************************************)
CREATED == "CREATED"
RUNNING == "RUNNING"
ERROR == "ERROR"
TERMINATED == "TERMINATED"
HALTED == "HALTED"
Statuses == {CREATED, RUNNING, ERROR, TERMINATED, HALTED}
TerminalStatuses == {TERMINATED, ERROR, HALTED}

\* Python's None
None == "None"

(***************************************************************************)
(* error_codes.py is not among the sources: its names are kept as symbols. *)
(* "OTHER" stands for an exit code that none of the names equals, and None *)
(* for a wait result without a 'StatusCode'.                               *)
(***************************************************************************)
OK == "OK"
SIGTERM == "SIGTERM"
SIGKILL == "SIGKILL"
UNDEFINED_ERROR == "UNDEFINED_ERROR"
DomainCodes ==
    {"MISSION_UPLOAD_FAIL", "STREAM_READ_FAILURE", "VEHICLE_TIMED_OUT",
     "PREMATURE_LANDING", "UNKNOWN_VEHICLE", "PX4_SIM_DESYNC", "TOO_MUCH_WIND"}
ExitCodes == {OK, SIGTERM, SIGKILL} \cup DomainCodes \cup {"OTHER", None}
\* the exit codes the containers of this model end with
WaitCodes == {OK, SIGTERM, "TOO_MUCH_WIND"}

VARIABLES
    now,          \* time.time()
    ps_queue,     \* ProcessManager.__ps_queue: the heap list of the PriorityQueue
    used,         \* the ids schedule_process has returned
    active_ps,    \* ProcessManager.__active_ps (its keys; the values are procs)
    old_ps,       \* ProcessManager.__old_ps (its keys)
    procs,        \* the Process objects, by id
    mon_pc,       \* where the monitor thread is
    ps_running,   \* ProcessManager.__ps_running
    mon_item,     \* the queue item the monitor thread has popped
    db_records,   \* the state store: the ids store_new_process has inserted
    store,        \* the state store: per id, the statuses updated, in order
    hist,         \* per id, the statuses set_status has assigned, in order
    faults,       \* how many calls have raised so far
    lastOp,       \* the last call of the public interface and what it returned
    boot          \* where ProcessManager.__init__ is

vars == <<now, ps_queue, used, active_ps, old_ps, procs, mon_pc, ps_running,
          mon_item, db_records, store, hist, faults, lastOp, boot>>

(***************************************************************************)
(* Process.__init__                                                        *)
(***************************************************************************)
\* Beside the fields of the object: op, the mission payload's operation_id;
\* pc, where the thread is in run; container, what the thread has got the
\* container host to do ("none", "started", "exited", "stopped").
NoProcess ==
    [status |-> CREATED, error_code |-> None, should_stop |-> FALSE,
     op |-> None, pc |-> "none", container |-> "none"]

NewProcess(operation_id) ==
    [status |-> CREATED, error_code |-> None, should_stop |-> FALSE,
     op |-> operation_id, pc |-> "run", container |-> "none"]

NoItem == [start |-> 0, id |-> 0, image |-> None, op |-> None, issuer |-> None]
NoCall == [call |-> "none"]

(***************************************************************************)
(* The PriorityQueue keeps a heapq list of tuples                          *)
(* (effective_start_time, id, image, mission_payload, issuer_id); tuples   *)
(* compare field by field and the ids differ, so the first two decide.     *)
(***************************************************************************)
ItemLess(a, b) ==
    \/ a.start < b.start
    \/ a.start = b.start /\ a.id < b.id

\* heapq._siftdown(heap, 0, pos) with newitem = the item to place at pos
RECURSIVE SiftDown(_, _, _)
SiftDown(heap, pos, newitem) ==
    IF pos > 1 /\ ItemLess(newitem, heap[pos \div 2])
    THEN SiftDown([heap EXCEPT ![pos] = heap[pos \div 2]], pos \div 2, newitem)
    ELSE [heap EXCEPT ![pos] = newitem]

\* heapq._siftup(heap, pos): the smaller child moves up until a leaf is hit
RECURSIVE SiftUp(_, _, _)
SiftUp(heap, pos, newitem) ==
    LET child == 2 * pos
        right == child + 1
        n == Len(heap)
    IN  IF child <= n
        THEN LET c == IF right <= n /\ ~ItemLess(heap[child], heap[right])
                      THEN right ELSE child
             IN  SiftUp([heap EXCEPT ![pos] = heap[c]], c, newitem)
        ELSE SiftDown(heap, pos, newitem)

\* a put that appends and does not sift: C12 does not hold of it
HeapPush_no_sift(heap, item) == Append(heap, item)

\* PriorityQueue.put -> heapq.heappush
HeapPush(heap, item) == SiftDown(Append(heap, item), Len(heap) + 1, item)

\* PriorityQueue.get_nowait -> heapq.heappop: what is left of the list
HeapPop(heap) ==
    LET last == heap[Len(heap)]
        rest == SubSeq(heap, 1, Len(heap) - 1)
    IN  IF rest = <<>> THEN rest ELSE SiftUp(rest, 1, last)

QueueIds == {ps_queue[i].id : i \in 1..Len(ps_queue)}

(***************************************************************************)
(* ProcessManager.__image_available, __process_with_operation_id           *)
(***************************************************************************)
image_available(img) == img \in HostImages

process_with_operation_id(operation_id) ==
    \E pid \in active_ps : procs[pid].op = operation_id

\* get_process_queue_for_user with the wrong tuple field compared (e[-2], the
\* mission payload, for e[-1]): C7 does not hold of it
get_process_queue_for_user_wrong_field(user_id) ==
    SelectSeq(ps_queue, LAMBDA e : e.op = user_id)

\* ProcessManager.get_process_queue_for_user
get_process_queue_for_user(user_id) ==
    SelectSeq(ps_queue, LAMBDA e : e.issuer = user_id)


(***************************************************************************)
(* Init: ProcessManager.__init__ has assigned the fields and made the      *)
(* monitor Thread object (lines 190-198); the thread is not started yet.   *)
(* boot is "init" there, "cleanup" once the thread is started and the call *)
(* of cleanup_dangling_processes is next, "ready" once __init__ returns.   *)
(***************************************************************************)
Init ==
    /\ now = 0
    /\ ps_queue = <<>>
    /\ used = {}
    /\ active_ps = {}
    /\ old_ps = {}
    /\ procs = [pid \in Ids |-> NoProcess]
    /\ mon_pc = "off"
    /\ ps_running = 0
    /\ mon_item = NoItem
    /\ db_records = {}
    /\ store = [pid \in Ids |-> <<>>]
    /\ hist = [pid \in Ids |-> <<>>]
    /\ faults = 0
    /\ lastOp = NoCall
    /\ boot = "init"

\* __init__: self.__monitor_thread.start()
StartMonitorThread ==
    /\ boot = "init"
    /\ boot' = "cleanup"
    /\ mon_pc' = "walk"
    /\ lastOp' = NoCall
    /\ UNCHANGED <<now, ps_queue, used, active_ps, old_ps, procs, ps_running,
                   mon_item, db_records, store, hist, faults>>

\* what cleanup_dangling does to the records of the store: those a run
\* before this one left in a status that is not terminal are resolved; the
\* store of this model holds the records of this run only
CleanupDangling(records) == records

\* __init__: cleanup_dangling_processes(db), and __init__ returns
CleanupDanglingProcesses ==
    /\ boot = "cleanup"
    /\ boot' = "ready"
    /\ db_records' = CleanupDangling(db_records)
    /\ lastOp' = NoCall
    /\ UNCHANGED <<now, ps_queue, used, active_ps, old_ps, procs, mon_pc,
                   ps_running, mon_item, store, hist, faults>>

\* the rest of __init__, on the constructing thread
Boot == StartMonitorThread \/ CleanupDanglingProcesses

\* time.time() moves on
Tick ==
    /\ now < MaxTime
    /\ now' = now + 1
    /\ lastOp' = NoCall
    /\ UNCHANGED <<ps_queue, used, active_ps, old_ps, procs, mon_pc,
                   ps_running, mon_item, db_records, store, hist,
                   faults, boot>>

(***************************************************************************)
(* ProcessManager.schedule_process, called on a submitter's thread: the    *)
(* two tests, the uuid4 draw (an id not returned before, among those the    *)
(* run has a Process slot for) and the put.                                *)
(***************************************************************************)
\* schedule_process without its test for an active Process of the same
\* operation: C8 does not hold of it
ScheduleOutcome_no_duplicate_test(image, operation_id) ==
    IF ~image_available(image) THEN "None" ELSE "id"

\* what the two checks at the head of schedule_process decide
ScheduleOutcome(image, operation_id) ==
    IF ~image_available(image) THEN "None"
    ELSE IF process_with_operation_id(operation_id) THEN "raise"
    ELSE "id"

schedule_process(image, operation_id, start, issuer) ==
    /\ IF ScheduleOutcome(image, operation_id) = "id"
       THEN \E id \in DOMAIN procs \ used :
               /\ used' = used \cup {id}
               /\ ps_queue' = HeapPush(ps_queue,
                      [start |-> start, id |-> id, image |-> image,
                       op |-> operation_id, issuer |-> issuer])
       ELSE UNCHANGED <<used, ps_queue>>
    /\ UNCHANGED <<now, active_ps, old_ps, procs, mon_pc, ps_running,
                   mon_item, db_records, store, hist, faults, boot>>

(***************************************************************************)
(* ProcessManager.halt_process(process_id) and Process.halt                *)
(***************************************************************************)
\* a halt_process that takes the item of an id that is not active off the
\* queue: C18 does not hold of it
halt_process_dequeues(process_id) ==
    /\ IF process_id \notin active_ps
       THEN /\ ps_queue' = SelectSeq(ps_queue, LAMBDA e : e.id # process_id)
            /\ UNCHANGED procs
       ELSE /\ procs' = [procs EXCEPT ![process_id].should_stop = TRUE]
            /\ UNCHANGED ps_queue
    /\ UNCHANGED <<now, used, active_ps, old_ps, mon_pc, ps_running,
                   mon_item, db_records, store, hist, faults, boot>>

halt_process(process_id) ==
    /\ IF process_id \notin active_ps
       THEN UNCHANGED procs
       ELSE procs' = [procs EXCEPT ![process_id].should_stop = TRUE]
    /\ UNCHANGED <<now, ps_queue, used, active_ps, old_ps, mon_pc, ps_running,
                   mon_item, db_records, store, hist, faults, boot>>

\* what halt_process returns
halt_result(process_id) == process_id \in active_ps

(***************************************************************************)
(* ProcessManager.monitor, the monitor thread's loop.                      *)
(***************************************************************************)
RunningCount(S) == Cardinality({pid \in S : procs[pid].status = RUNNING})

\* __dequeue_ps: if self.__ps_running >= self.__max_concurrent_processes: return
CapacityReached(n) == n >= max_concurrent_processes

\* the walk without its branch for Process.HALTED: C11 does not hold of it
MonitorWalk_halted_kept ==
    /\ mon_pc = "walk"
    /\ LET to_delete == {pid \in active_ps :
                            procs[pid].status \in {TERMINATED, ERROR}}
           running == RunningCount(active_ps)
       IN  /\ old_ps' = old_ps \cup to_delete
           /\ active_ps' = active_ps \ to_delete
           /\ ps_running' = running
           /\ mon_pc' = IF CapacityReached(running) THEN "walk" ELSE "empty"
    /\ lastOp' = NoCall
    /\ UNCHANGED <<now, ps_queue, used, procs, mon_item, db_records, store,
                   hist, faults, boot>>

\* the walk over the active set, the deletions, and the capacity test that
\* opens __dequeue_ps.  The statuses are read in one step: the threads of
\* different Processes do not read each other, so a walk that reads them one
\* after the other sees what a one-step walk sees in a run with the same
\* steps in another order.
MonitorWalk ==
    /\ mon_pc = "walk"
    /\ LET to_delete == {pid \in active_ps :
                            procs[pid].status \in TerminalStatuses}
           running == RunningCount(active_ps)
       IN  /\ old_ps' = old_ps \cup to_delete
           /\ active_ps' = active_ps \ to_delete
           /\ ps_running' = running
           /\ mon_pc' = IF CapacityReached(running) THEN "walk" ELSE "empty"
    /\ lastOp' = NoCall
    /\ UNCHANGED <<now, ps_queue, used, procs, mon_item, db_records, store,
                   hist, faults, boot>>

\* __dequeue_ps: if not self.__ps_queue.empty():
DequeueEmptyCheck ==
    /\ mon_pc = "empty"
    /\ mon_pc' = IF ps_queue # <<>> THEN "peek" ELSE "get"
    /\ lastOp' = NoCall
    /\ UNCHANGED <<now, ps_queue, used, active_ps, old_ps, procs, ps_running,
                   mon_item, db_records, store, hist, faults, boot>>

\* __dequeue_ps: the head's start time against time.time()
HeadNotDue(heap, t) == t < heap[1].start

DequeuePeek ==
    /\ mon_pc = "peek"
    /\ mon_pc' = IF HeadNotDue(ps_queue, now) THEN "walk" ELSE "get"
    /\ lastOp' = NoCall
    /\ UNCHANGED <<now, ps_queue, used, active_ps, old_ps, procs, ps_running,
                   mon_item, db_records, store, hist, faults, boot>>

\* __dequeue_ps: get_nowait(), which raises Empty on an empty queue
DequeueGet ==
    /\ mon_pc = "get"
    /\ IF ps_queue = <<>>
       THEN /\ mon_pc' = "walk"
            /\ UNCHANGED <<ps_queue, mon_item>>
       ELSE /\ mon_item' = ps_queue[1]
            /\ ps_queue' = HeapPop(ps_queue)
            /\ mon_pc' = "start"
    /\ lastOp' = NoCall
    /\ UNCHANGED <<now, used, active_ps, old_ps, procs, ps_running,
                   db_records, store, hist, faults, boot>>

\* __start_new_process: Process(...) and p.start()
StartThread ==
    /\ mon_pc = "start"
    /\ procs' = [procs EXCEPT ![mon_item.id] = NewProcess(mon_item.op)]
    /\ mon_pc' = "insert"
    /\ lastOp' = NoCall
    /\ UNCHANGED <<now, ps_queue, used, active_ps, old_ps, ps_running,
                   mon_item, db_records, store, hist, faults, boot>>

\* Process(...) or p.start() raises; __dequeue_ps logs it
StartThreadRaises ==
    /\ mon_pc = "start"
    /\ faults < MaxFaults
    /\ faults' = faults + 1
    /\ mon_pc' = "walk"
    /\ mon_item' = NoItem
    /\ lastOp' = NoCall
    /\ UNCHANGED <<now, ps_queue, used, active_ps, old_ps, procs, ps_running,
                   db_records, store, hist, boot>>

\* __start_new_process: self.__active_ps[_id] = p
InsertActive ==
    /\ mon_pc = "insert"
    /\ active_ps' = active_ps \cup {mon_item.id}
    /\ mon_pc' = "store"
    /\ lastOp' = NoCall
    /\ UNCHANGED <<now, ps_queue, used, old_ps, procs, ps_running, mon_item,
                   db_records, store, hist, faults, boot>>

\* store_new_process(db, process): a record for the Process is inserted
StoreNew(records, pid) == records \cup {pid}

\* update_process_status(db, process): the status the Process has now
StoreUpdate(db, pid) == [db EXCEPT ![pid] = Append(@, procs[pid].status)]

\* __start_new_process: self.__new_process(p)
StoreNewProcess ==
    /\ mon_pc = "store"
    /\ db_records' = StoreNew(db_records, mon_item.id)
    /\ mon_pc' = "walk"
    /\ mon_item' = NoItem
    /\ lastOp' = NoCall
    /\ UNCHANGED <<now, ps_queue, used, active_ps, old_ps, procs, ps_running,
                   store, hist, faults, boot>>

\* store_new_process raises; __dequeue_ps logs it
StoreNewProcessRaises ==
    /\ mon_pc = "store"
    /\ faults < MaxFaults
    /\ faults' = faults + 1
    /\ mon_pc' = "walk"
    /\ mon_item' = NoItem
    /\ lastOp' = NoCall
    /\ UNCHANGED <<now, ps_queue, used, active_ps, old_ps, procs, ps_running,
                   db_records, store, hist, boot>>


(***************************************************************************)
(* Process: the supervisor thread (Process.run).                           *)
(***************************************************************************)
\* __code_to_result with SIGKILL left out of its second test: C13 does not
\* hold of it
code_to_result_sigkill_error(exit_code) ==
    IF exit_code = OK THEN TERMINATED
    ELSE IF exit_code = SIGTERM THEN HALTED
    ELSE ERROR

\* Process.__code_to_result.  The branches for PREMATURE_LANDING,
\* UNKNOWN_VEHICLE, PX4_SIM_DESYNC and TOO_MUCH_WIND have no return and, as
\* every code that no branch names, reach the return that ends the method.
code_to_result(exit_code) ==
    IF exit_code = OK THEN TERMINATED
    ELSE IF exit_code = SIGTERM \/ exit_code = SIGKILL THEN HALTED
    ELSE IF exit_code = "MISSION_UPLOAD_FAIL" THEN ERROR
    ELSE IF exit_code = "STREAM_READ_FAILURE" THEN ERROR
    ELSE IF exit_code = "VEHICLE_TIMED_OUT" THEN ERROR
    ELSE ERROR

\* monitor(container): error_code if error_code not in [OK, SIGTERM, SIGKILL] else None
reported_error_code(exit_code) ==
    IF exit_code \notin {OK, SIGTERM, SIGKILL} THEN exit_code ELSE None

\* Process.set_status, its three assignments; the delegate call that ends it
\* is the thread's next step, at next_pc.  container is what the call made
\* just before has left of the container.
set_status(pid, s, error_code, next_pc, container) ==
    /\ procs' = [procs EXCEPT ![pid].status = s,
                              ![pid].error_code = error_code,
                              ![pid].pc = next_pc,
                              ![pid].container = container]
    /\ hist' = [hist EXCEPT ![pid] = Append(@, s)]

\* run: self.set_status(Process.RUNNING)
RunSetRunning(pid) ==
    /\ procs[pid].pc = "run"
    /\ set_status(pid, RUNNING, None, "cb_run", "none")
    /\ lastOp' = NoCall
    /\ UNCHANGED <<now, ps_queue, used, active_ps, old_ps, mon_pc, ps_running,
                   mon_item, db_records, store, faults, boot>>

CallbackPcs == {"cb_run", "cb_started", "cb_final", "cb_except"}

\* where the thread goes when process_status_changed returns
AfterCallback(pc) ==
    CASE pc = "cb_run" -> "create"
      [] pc = "cb_started" -> "loop"
      [] pc = "cb_final" -> "done"
      [] pc = "cb_except" -> "done"

\* set_status: self.__delegate.process_status_changed(self), which returns
ProcessStatusChanged(pid) ==
    /\ procs[pid].pc \in CallbackPcs
    /\ store' = StoreUpdate(store, pid)
    /\ procs' = [procs EXCEPT ![pid].pc = AfterCallback(procs[pid].pc)]
    /\ lastOp' = NoCall
    /\ UNCHANGED <<now, ps_queue, used, active_ps, old_ps, mon_pc, ps_running,
                   mon_item, db_records, hist, faults, boot>>

\* process_status_changed raises (the store write fails).  In run, around
\* either set_status, the handler is set_status(Process.ERROR); in
\* __run_docker_instance it is return Process.ERROR, None, which run then
\* sets; raised out of run's handler it ends the thread.
ProcessStatusChangedRaises(pid) ==
    /\ procs[pid].pc \in CallbackPcs
    /\ faults < MaxFaults
    /\ faults' = faults + 1
    /\ CASE procs[pid].pc = "cb_run" ->
                set_status(pid, ERROR, None, "cb_except", procs[pid].container)
         [] procs[pid].pc = "cb_started" ->
                set_status(pid, ERROR, None, "cb_final", procs[pid].container)
         [] procs[pid].pc = "cb_final" ->
                set_status(pid, ERROR, None, "cb_except", procs[pid].container)
         [] procs[pid].pc = "cb_except" ->
                /\ procs' = [procs EXCEPT ![pid].pc = "done"]
                /\ UNCHANGED hist
    /\ lastOp' = NoCall
    /\ UNCHANGED <<now, ps_queue, used, active_ps, old_ps, mon_pc, ps_running,
                   mon_item, db_records, store, boot>>

\* __run_docker_instance: containers.create and container.start succeed,
\* then self.set_status(Process.RUNNING)
ContainerStarted(pid) ==
    /\ procs[pid].pc = "create"
    /\ set_status(pid, RUNNING, None, "cb_started", "started")
    /\ lastOp' = NoCall
    /\ UNCHANGED <<now, ps_queue, used, active_ps, old_ps, mon_pc, ps_running,
                   mon_item, db_records, store, faults, boot>>

\* containers.create or container.start raises: return Process.ERROR, None
ContainerStartRaises(pid) ==
    /\ procs[pid].pc = "create"
    /\ set_status(pid, ERROR, None, "cb_final", "none")
    /\ lastOp' = NoCall
    /\ UNCHANGED <<now, ps_queue, used, active_ps, old_ps, mon_pc, ps_running,
                   mon_item, db_records, store, faults, boot>>

\* the loop without its test of the flag: C10 does not hold of it
LoopCheck_flag_ignored(pid) ==
    /\ procs[pid].pc = "loop"
    /\ procs' = [procs EXCEPT ![pid].pc = "wait"]
    /\ lastOp' = NoCall
    /\ UNCHANGED <<now, ps_queue, used, active_ps, old_ps, mon_pc, ps_running,
                   mon_item, db_records, store, hist, faults, boot>>

\* monitor(container): the head of the loop, if self.__should_stop
LoopCheck(pid) ==
    /\ procs[pid].pc = "loop"
    /\ procs' = [procs EXCEPT ![pid].pc =
                    IF procs[pid].should_stop THEN "stop" ELSE "wait"]
    /\ lastOp' = NoCall
    /\ UNCHANGED <<now, ps_queue, used, active_ps, old_ps, mon_pc, ps_running,
                   mon_item, db_records, store, hist, faults, boot>>

\* what container.stop(timeout=5) can do: return, raise APIError, or raise
\* something else (which __run_docker_instance's handler catches)
StopOutcomes == {"stopped", "APIError", "Exception"}

StopResult(outcome) ==
    CASE outcome = "stopped" -> <<HALTED, None>>
      [] outcome = "APIError" -> <<ERROR, UNDEFINED_ERROR>>
      [] outcome = "Exception" -> <<ERROR, None>>

ContainerStop(pid) ==
    /\ procs[pid].pc = "stop"
    /\ \E outcome \in StopOutcomes :
          set_status(pid, StopResult(outcome)[1], StopResult(outcome)[2],
                     "cb_final",
                     IF outcome = "stopped" THEN "stopped" ELSE "started")
    /\ lastOp' = NoCall
    /\ UNCHANGED <<now, ps_queue, used, active_ps, old_ps, mon_pc, ps_running,
                   mon_item, db_records, store, faults, boot>>

\* container.wait(timeout=3) returns an exit status
ContainerExited(pid) ==
    /\ procs[pid].pc = "wait"
    /\ \E exit_code \in WaitCodes :
          set_status(pid, code_to_result(exit_code),
                     reported_error_code(exit_code), "cb_final", "exited")
    /\ lastOp' = NoCall
    /\ UNCHANGED <<now, ps_queue, used, active_ps, old_ps, mon_pc, ps_running,
                   mon_item, db_records, store, faults, boot>>

\* container.wait(timeout=3) returns any exit status, which lastOp keeps
ContainerExitedObserved(pid) ==
    /\ procs[pid].pc = "wait"
    /\ \E exit_code \in ExitCodes :
          /\ set_status(pid, code_to_result(exit_code),
                        reported_error_code(exit_code), "cb_final", "exited")
          /\ lastOp' = [call |-> "exit", id |-> pid, exit_code |-> exit_code]
    /\ UNCHANGED <<now, ps_queue, used, active_ps, old_ps, mon_pc, ps_running,
                   mon_item, db_records, store, faults, boot>>

\* container.wait times out or raises, or container.remove raises after it:
\* except Exception: pass, and the loop goes round
WaitRaises(pid) ==
    /\ procs[pid].pc = "wait"
    /\ procs' = [procs EXCEPT ![pid].pc = "loop"]
    /\ lastOp' = NoCall
    /\ UNCHANGED <<now, ps_queue, used, active_ps, old_ps, mon_pc, ps_running,
                   mon_item, db_records, store, hist, faults, boot>>

\* the steps of a supervisor thread in which nothing it calls fails it
SupervisorSteps(pid) ==
    \/ RunSetRunning(pid)
    \/ ProcessStatusChanged(pid)
    \/ ContainerStarted(pid)
    \/ ContainerStartRaises(pid)
    \/ LoopCheck(pid)
    \/ ContainerStop(pid)
    \/ ContainerExited(pid)
    \/ WaitRaises(pid)

Supervisor(pid) == SupervisorSteps(pid) \/ ProcessStatusChangedRaises(pid)

\* the steps of the monitor thread in which nothing it calls raises
MonitorSteps ==
    \/ MonitorWalk
    \/ DequeueEmptyCheck
    \/ DequeuePeek
    \/ DequeueGet
    \/ StartThread
    \/ InsertActive
    \/ StoreNewProcess

Monitor == MonitorSteps \/ StartThreadRaises \/ StoreNewProcessRaises

(***************************************************************************)
(* The callers of the public interface.  Schedule and Halt make the calls; *)
(* ScheduleObserved and HaltObserved make them and keep, in lastOp, the    *)
(* arguments and what the call returned (res: "id" with the id, "None",    *)
(* or "raise" for the exception of schedule_process; of a call that        *)
(* returned no id, the two arguments that schedule_process read).  A call  *)
(* is made on a ProcessManager whose __init__ has returned.                *)
(***************************************************************************)
Schedule ==
    /\ boot = "ready"
    /\ \E image \in Images, operation_id \in Ops, start \in Times,
          issuer \in Issuers :
           schedule_process(image, operation_id, start, issuer)
    /\ lastOp' = NoCall

Halt ==
    /\ boot = "ready"
    /\ \E process_id \in Ids : halt_process(process_id)
    /\ lastOp' = NoCall

ScheduleObserved ==
    \E image \in Images, operation_id \in Ops, start \in Times,
       issuer \in Issuers :
        /\ boot = "ready"
        /\ schedule_process(image, operation_id, start, issuer)
        /\ lastOp' =
              IF used' # used
              THEN [call |-> "schedule", image |-> image,
                    op |-> operation_id, start |-> start, issuer |-> issuer,
                    res |-> "id", id |-> CHOOSE id \in used' : id \notin used]
              ELSE [call |-> "schedule", image |-> image,
                    op |-> operation_id,
                    res |-> ScheduleOutcome(image, operation_id)]

HaltObserved ==
    \E process_id \in Ids :
        /\ boot = "ready"
        /\ halt_process(process_id)
        /\ lastOp' = [call |-> "halt", id |-> process_id,
                      res |-> halt_result(process_id)]

\* ProcessManager.processes_info: the status of each Process of the active
\* and of the old dictionary
processes_info ==
    [active |-> [pid \in active_ps |-> procs[pid].status],
     old |-> [pid \in old_ps |-> procs[pid].status]]

\* the two calls that only read: get_process_queue_for_user (for any user)
\* and processes_info
ReadObserved ==
    /\ boot = "ready"
    /\ \E call \in {"queue", "info"} : lastOp' = [call |-> call]
    /\ UNCHANGED <<now, ps_queue, used, active_ps, old_ps, procs, mon_pc,
                   ps_running, mon_item, db_records, store, hist, faults,
                   boot>>

\* a single submission is ever accepted
ScheduleOnce == used = {} /\ Schedule

(***************************************************************************)
(* Spec: submitters, halt callers, the monitor thread and the supervisor   *)
(* threads, with calls that may raise.                                     *)
(***************************************************************************)
Next ==
    \/ Boot
    \/ Tick
    \/ Schedule
    \/ Halt
    \/ Monitor
    \/ \E pid \in Ids : Supervisor(pid)

Spec == Init /\ [][Next]_vars

(***************************************************************************)
(* ApiSpec: the same threads, with the results of the calls of the public  *)
(* interface observed; the state store and Thread.start do not raise.      *)
(***************************************************************************)
ApiNext ==
    \/ Boot
    \/ Tick
    \/ ScheduleObserved
    \/ HaltObserved
    \/ ReadObserved
    \/ MonitorSteps
    \/ \E pid \in Ids : SupervisorSteps(pid)

ApiSpec == Init /\ [][ApiNext]_vars

(***************************************************************************)
(* FairSpec: one submission, and every thread that can take a step         *)
(* eventually takes one.                                                   *)
(***************************************************************************)
FairNext ==
    \/ Boot
    \/ Tick
    \/ ScheduleOnce
    \/ Halt
    \/ Monitor
    \/ \E pid \in Ids : Supervisor(pid)

FairSpec ==
    /\ Init
    /\ [][FairNext]_vars
    /\ WF_vars(Monitor)
    /\ \A pid \in Ids : WF_vars(Supervisor(pid))

(***************************************************************************)
(* ExitSpec: one submission, whose container may end with any exit code;   *)
(* the code is kept in lastOp in the step that translates it.              *)
(***************************************************************************)
ExitSupervisor(pid) ==
    \/ RunSetRunning(pid)
    \/ ProcessStatusChanged(pid)
    \/ ContainerStarted(pid)
    \/ ContainerStartRaises(pid)
    \/ LoopCheck(pid)
    \/ ContainerStop(pid)
    \/ ContainerExitedObserved(pid)
    \/ WaitRaises(pid)

ExitNext ==
    \/ Boot
    \/ Tick
    \/ ScheduleOnce
    \/ Halt
    \/ MonitorSteps
    \/ \E pid \in Ids : ExitSupervisor(pid)

ExitSpec == Init /\ [][ExitNext]_vars

(***************************************************************************)
(* QueueSpec: the admission queue with its producers and its consumer.     *)
(* Submitters put up to MaxQueued items and the monitor thread pops and    *)
(* starts them; the supervisor threads, which never touch the queue, do    *)
(* not get to run, so that the Processes stay CREATED and the monitor      *)
(* never finds the capacity reached.                                       *)
(***************************************************************************)
QueueInit ==
    /\ now = 0
    /\ ps_queue = <<>>
    /\ used = {}
    /\ active_ps = {}
    /\ old_ps = {}
    /\ procs = [pid \in QueuedIds |-> NoProcess]
    /\ mon_pc = "off"
    /\ ps_running = 0
    /\ mon_item = NoItem
    /\ db_records = {}
    /\ store = [pid \in QueuedIds |-> <<>>]
    /\ hist = [pid \in QueuedIds |-> <<>>]
    /\ faults = 0
    /\ lastOp = NoCall
    /\ boot = "init"

\* submissions of one issuer for an image the host has
QueueSchedule ==
    /\ boot = "ready"
    /\ \E operation_id \in Ops, start \in Times :
           schedule_process("sim", operation_id, start, "u1")
    /\ lastOp' = NoCall

QueueNext ==
    \/ Boot
    \/ Tick
    \/ QueueSchedule
    \/ MonitorSteps

QueueSpec == QueueInit /\ [][QueueNext]_vars

(***************************************************************************)
(* The properties.                                                         *)
(***************************************************************************)

\* C1 (capacity): in every reachable state the number of Processes of the
\* active set whose status is RUNNING is at most max_concurrent_processes.
C1_Capacity == RunningCount(active_ps) <= max_concurrent_processes

\* C2 (operation uniqueness): no two Processes of the active set carry the
\* same operation_id.
C2_OperationUnique ==
    \A p \in active_ps, q \in active_ps :
        p # q => procs[p].op # procs[q].op

\* C3 (earliest start): an item the monitor has popped and is handing to
\* __start_new_process has effective_start_time <= now.
C3_NotBeforeStartTime ==
    mon_pc \in {"start", "insert", "store"} => mon_item.start <= now

\* the edges of the Process state machine
Edges ==
    {<<CREATED, RUNNING>>, <<CREATED, ERROR>>, <<RUNNING, TERMINATED>>,
     <<RUNNING, HALTED>>, <<RUNNING, ERROR>>}

\* the statuses a Process has had: CREATED, then what set_status assigned
Trail(pid) == <<CREATED>> \o hist[pid]

\* C4 (state-machine edges): every set_status call of a Process takes its
\* status along one of the edges CREATED->RUNNING, CREATED->ERROR,
\* RUNNING->TERMINATED, RUNNING->HALTED, RUNNING->ERROR.
C4_OnlyEdges ==
    \A pid \in Ids : \A i \in 1..Len(hist[pid]) :
        <<Trail(pid)[i], Trail(pid)[i + 1]>> \in Edges

\* C5 (terminal states absorb): once set_status has assigned TERMINATED, ERROR
\* or HALTED to a Process, set_status is not called for it again (its status
\* does not change and the status-changed callback does not fire).
C5_TerminalAbsorbing ==
    \A pid \in Ids : \A i \in 1..Len(hist[pid]) :
        hist[pid][i] \in TerminalStatuses => i = Len(hist[pid])

\* C6 (store mirror): whenever a Process is not inside set_status, the
\* statuses written to the state store for it are the statuses set_status has
\* assigned to it, in the same order.
C6_StoreMirror ==
    \A pid \in Ids :
        procs[pid].pc \notin CallbackPcs => store[pid] = hist[pid]

\* the tuple an accepted call has put on the queue
ItemOf(call) ==
    [start |-> call.start, id |-> call.id, image |-> call.image,
     op |-> call.op, issuer |-> call.issuer]

ItemsOf(heap) == {heap[i] : i \in 1..Len(heap)}

Accepted(call) == call.call = "schedule" /\ call.res = "id"
Rejected(call) == call.call = "schedule" /\ call.res # "id"

\* what an accepting call does to the ids returned and to the queue
AcceptStep ==
    /\ lastOp'.call = "schedule" =>
          (lastOp'.res = "id" <=>
              /\ image_available(lastOp'.image)
              /\ ~process_with_operation_id(lastOp'.op))
    /\ Accepted(lastOp') =>
          /\ lastOp'.id \notin used
          /\ used' = used \cup {lastOp'.id}
          /\ Len(ps_queue') = Len(ps_queue) + 1
          /\ ItemsOf(ps_queue') = ItemsOf(ps_queue) \cup {ItemOf(lastOp')}

\* the issuer's snapshot right after an accepting call holds the id
SnapshotHasId ==
    Accepted(lastOp) =>
        \E i \in 1..Len(get_process_queue_for_user(lastOp.issuer)) :
            get_process_queue_for_user(lastOp.issuer)[i].id = lastOp.id

\* C7 (accepted submission): a schedule_process call made with the image
\* present and no active Process of the same operation_id returns an id; the
\* id it returns was never returned before; the call adds to the queue the
\* one item (effective_start_time, id, image, mission_payload, issuer_id) and
\* nothing else; and the issuer's queue snapshot taken right after the call
\* has an entry with that id.
C7_AcceptedSubmission == [][AcceptStep]_vars /\ []SnapshotHasId

\* C7's case: a second submission has just been accepted while the first is
\* still queued, and another issuer's entry is in the queue.
C7_Witness ==
    /\ Accepted(lastOp)
    /\ Len(ps_queue) = 2
    /\ \E i \in 1..2 : ps_queue[i].issuer # lastOp.issuer

\* C8 (rejected submission): schedule_process returns None exactly when the
\* image is not on the container host, and raises exactly when the image is
\* there and an active Process has the same operation_id; either way the
\* queue, the active set and the old set are as they were before the call.
C8_RejectedSubmission ==
    [][ lastOp'.call = "schedule" =>
          /\ lastOp'.res = "None" <=> ~image_available(lastOp'.image)
          /\ lastOp'.res = "raise" <=>
                /\ image_available(lastOp'.image)
                /\ process_with_operation_id(lastOp'.op)
          /\ Rejected(lastOp') =>
                UNCHANGED <<ps_queue, active_ps, old_ps, used>>
      ]_vars

\* C8's case: a call has just raised for a duplicate operation while the
\* queue and the old set hold entries.
C8_Witness ==
    /\ lastOp.call = "schedule"
    /\ lastOp.res = "raise"
    /\ ps_queue # <<>>
    /\ \E pid \in active_ps : procs[pid].op = lastOp.op

\* C9 (halt_process result): halt_process returns true exactly when the id is
\* in the active set, and then the Process's should-stop flag is set; it
\* returns false for a Process that has reached TERMINATED, ERROR or HALTED,
\* whether the monitor has moved it to old or not.
C9_HaltResult ==
    lastOp.call = "halt" =>
        /\ lastOp.res <=> lastOp.id \in active_ps
        /\ lastOp.res => procs[lastOp.id].should_stop
        /\ procs[lastOp.id].status \in TerminalStatuses => ~lastOp.res

\* the first of TERMINATED, ERROR, HALTED that set_status has assigned
FirstTerminal(pid) ==
    LET at == {i \in 1..Len(hist[pid]) : hist[pid][i] \in TerminalStatuses}
    IN  IF at = {} THEN None
        ELSE hist[pid][CHOOSE i \in at : \A j \in at : i <= j]

\* a halted RUNNING Process gets to a terminal status
HaltedEnds ==
    \A pid \in Ids :
        (procs[pid].should_stop /\ procs[pid].status = RUNNING)
            ~> (procs[pid].status \in TerminalStatuses)

\* the thread that saw the flag and whose container.stop returned sets HALTED
StoppedIsHalted ==
    \A pid \in Ids :
        procs[pid].container = "stopped" =>
            /\ procs[pid].should_stop
            /\ FirstTerminal(pid) = HALTED

\* container.wait is only entered from the flag test, with the flag down
WaitAfterFlagTest ==
    \A pid \in Ids :
        (procs[pid].pc # "wait" /\ procs'[pid].pc = "wait") =>
            (procs[pid].pc = "loop" /\ ~procs[pid].should_stop)

\* C10 (halt response): once halt_process has set the flag of a RUNNING
\* Process, and its supervisor thread keeps being scheduled, the Process
\* reaches TERMINATED, ERROR or HALTED; the terminal status it is given is
\* HALTED when the thread saw the flag before any container exit and
\* container.stop returned; and the thread enters container.wait only straight
\* from a test of the flag that found it down.
C10_HaltResponse ==
    HaltedEnds /\ []StoppedIsHalted /\ [][WaitAfterFlagTest]_vars

\* C10's case: a Process halted while RUNNING, stopped by its thread, is done
\* and HALTED.
C10_Witness ==
    \E pid \in Ids :
        /\ procs[pid].should_stop
        /\ procs[pid].container = "stopped"
        /\ procs[pid].pc = "done"
        /\ procs[pid].status = HALTED

\* a Process whose status is terminal gets out of active and into old
Reaped ==
    \A pid \in Ids :
        (procs[pid].status \in TerminalStatuses)
            ~> (pid \in old_ps /\ pid \notin active_ps)

\* an id of old stays in old and out of active
OldStays ==
    \A pid \in old_ps : pid \in old_ps' /\ pid \notin active_ps'

\* a thread begins run only as a Process just made, which no thread has run
StartedOnce ==
    \A pid \in Ids :
        (procs[pid].pc # "run" /\ procs'[pid].pc = "run") =>
            (procs[pid].pc = "none" /\ hist[pid] = <<>>)

\* the Processes of active and old are Processes whose thread was started
Started ==
    /\ active_ps \cap old_ps = {}
    /\ \A pid \in active_ps \cup old_ps : procs[pid].pc # "none"

\* C11 (lifecycle): with the monitor thread scheduled fairly, a Process whose
\* status is TERMINATED, ERROR or HALTED is eventually out of the active set
\* and in the old set under the same id; an id in old never gets back into
\* active; and the thread of a Process is started once.
C11_Lifecycle == Reaped /\ [][OldStays /\ StartedOnce]_vars /\ []Started

\* C11's case: a Process that was halted has ended and the monitor has moved
\* it to old.
C11_Witness ==
    \E pid \in old_ps :
        /\ pid \notin active_ps
        /\ procs[pid].pc = "done"
        /\ procs[pid].status = HALTED

\* a step that takes an item off the queue takes the least one, and only it
PopsMinimum ==
    Len(ps_queue') < Len(ps_queue) =>
        /\ mon_item' \in ItemsOf(ps_queue)
        /\ \A i \in 1..Len(ps_queue) : ~ItemLess(ps_queue[i], mon_item')
        /\ ItemsOf(ps_queue') = ItemsOf(ps_queue) \ {mon_item'}
        /\ Len(ps_queue') = Len(ps_queue) - 1

\* an item is started only once it is off the queue, by the thread that
\* popped it and before that thread pops again
QueuedNotStarted ==
    /\ \A i \in 1..Len(ps_queue) : procs[ps_queue[i].id].pc = "none"
    /\ mon_pc \in {"start", "insert", "store"} <=> mon_item # NoItem

\* C12 (dequeue order): the item a pop takes off the admission queue is the
\* minimum by (effective_start_time, id) of the items in the queue at that
\* moment; the items still queued are not started, so items that are in the
\* queue together are started in ascending (effective_start_time, id) order.
C12_DequeueOrder == [][PopsMinimum]_vars /\ []QueuedNotStarted

\* C12's case: the monitor has popped an item off a queue of four whose heap
\* list was not in ascending order.
C12_Witness ==
    /\ mon_pc = "start"
    /\ Len(ps_queue) = 3
    /\ ItemLess(ps_queue[3], ps_queue[2])
    /\ \A i \in 1..3 : ItemLess(mon_item, ps_queue[i])

\* C13 (exit-code translation): the status a container exit code is
\* translated to is TERMINATED for OK, HALTED for SIGTERM and SIGKILL, and
\* ERROR for every other code; the error_code set with it is the exit code
\* when the status is ERROR and is absent when it is TERMINATED or HALTED.
C13_ExitCodeTranslation ==
    lastOp.call = "exit" =>
        LET exit_code == lastOp.exit_code
            p == procs[lastOp.id]
        IN  /\ exit_code = OK =>
                  p.status = TERMINATED /\ p.error_code = None
            /\ exit_code \in {SIGTERM, SIGKILL} =>
                  p.status = HALTED /\ p.error_code = None
            /\ exit_code \notin {OK, SIGTERM, SIGKILL} =>
                  p.status = ERROR /\ p.error_code = exit_code

\* C13's case: a container has exited with a code whose branch of
\* __code_to_result has no return of its own.
C13_Witness ==
    /\ lastOp.call = "exit"
    /\ lastOp.exit_code = "PREMATURE_LANDING"
    /\ procs[lastOp.id].pc = "cb_final"

\* the item of this id is in the queue and its start time has passed
QueuedAndDue(id) ==
    \E i \in 1..Len(ps_queue) :
        ps_queue[i].id = id /\ ps_queue[i].start <= now

\* a due item does not stay unstarted while the running count is below the
\* capacity
DueItemStarted ==
    \A id \in Ids :
        QueuedAndDue(id) ~>
            \/ procs[id].pc # "none"
            \/ RunningCount(active_ps) >= max_concurrent_processes

\* a Process whose thread was started gets to RUNNING
StartedRuns ==
    \A id \in Ids :
        (procs[id].pc = "run") ~> (hist[id] # <<>> /\ hist[id][1] = RUNNING)

\* C14 (progress of admission): with the monitor thread scheduled fairly, a
\* queued item whose effective_start_time has passed is eventually popped
\* and its Process started, unless the running count is at the capacity, and
\* the started Process becomes RUNNING.
C14_AdmissionProgress == DueItemStarted /\ StartedRuns

\* C15 (re-submission after completion): a schedule_process call raises the
\* duplicate-operation error only while some started Process with that
\* operation_id has not reached TERMINATED, ERROR or HALTED; once every
\* Process that held the operation_id is terminal, a call with the image
\* present is accepted.
C15_Resubmission ==
    (lastOp.call = "schedule" /\ lastOp.res = "raise") =>
        \E pid \in Ids :
            /\ procs[pid].pc # "none"
            /\ procs[pid].op = lastOp.op
            /\ procs[pid].status \notin TerminalStatuses

\* containers.create or container.start raised: ERROR, no error_code
StartFailureOutcome ==
    \A pid \in Ids :
        (procs[pid].pc = "create" /\ procs'[pid].pc # "create"
            /\ procs'[pid].container = "none") =>
            (procs'[pid].status = ERROR /\ procs'[pid].error_code = None)

\* the flag was seen and container.stop was called: HALTED and no error_code
\* if it returned, ERROR and UNDEFINED_ERROR if it raised
StopOutcome ==
    \A pid \in Ids :
        (procs[pid].pc = "stop" /\ procs'[pid].pc # "stop") =>
            IF procs'[pid].container = "stopped"
            THEN procs'[pid].status = HALTED /\ procs'[pid].error_code = None
            ELSE /\ procs'[pid].status = ERROR
                 /\ procs'[pid].error_code = UNDEFINED_ERROR

ErrorCodeOnlyOnError ==
    \A pid \in Ids :
        procs[pid].error_code # None => procs[pid].status = ERROR

\* C16 (supervisor failure outcomes): the set_status that reports a failed
\* container creation or start assigns ERROR with no error_code; the one that
\* follows a container.stop called for the halt flag assigns ERROR with
\* UNDEFINED_ERROR when stop raised and HALTED with no error_code when stop
\* returned; and in every state a Process has an error_code only if its
\* status is ERROR.
C16_FailureOutcomes ==
    [][StartFailureOutcome /\ StopOutcome]_vars /\ []ErrorCodeOnlyOnError

\* C17 (boot order): the monitor thread is started, and so takes the steps of
\* an iteration, only once cleanup_dangling_processes has been called and has
\* returned.
C17_BootOrder == mon_pc # "off" => boot = "ready"

\* a step that changes the active or the old set is a step of the monitor
\* thread, at its walk or at its insertion: no call of the interface, no step
\* of a supervisor thread, of the constructor or of the clock
OnlyMonitorWrites ==
    (active_ps' # active_ps \/ old_ps' # old_ps) =>
        /\ mon_pc \in {"walk", "insert"}
        /\ lastOp' = NoCall
        /\ UNCHANGED <<procs, store, ps_queue, used, now, boot>>

\* the calls of the interface and the status callback leave both sets alone
CallsLeaveSets ==
    (lastOp'.call # "none" \/ store' # store) =>
        UNCHANGED <<active_ps, old_ps>>

\* halt_process for an id that is in the queue
HaltOfQueued ==
    (lastOp'.call = "halt" /\ lastOp'.id \in QueueIds) =>
        /\ lastOp'.res = FALSE
        /\ UNCHANGED <<ps_queue, procs>>

\* C18 (ownership of the active and old sets): only steps of the monitor
\* thread change the active or the old set; schedule_process, halt_process,
\* process_status_changed, get_process_queue_for_user and processes_info
\* leave both as they are; and halt_process for an id that is only in the
\* queue returns false and leaves the queue as it is.
C18_Ownership == [][OnlyMonitorWrites /\ CallsLeaveSets /\ HaltOfQueued]_vars

\* C18's case: halt_process has just been called for a queued id while the
\* other Process is in the active set.
C18_Witness ==
    /\ lastOp.call = "halt"
    /\ lastOp.id \in QueueIds
    /\ active_ps # {}

\* C19 (record creation precedes updates): the state store is written an
\* update_process_status for an id only after store_new_process has inserted
\* the record of that id.
C19_RecordBeforeUpdates ==
    \A pid \in Ids : store[pid] # <<>> => pid \in db_records

\* in how many of the queue, the active set and the old set an id is
Holders(id) ==
    (IF id \in QueueIds THEN 1 ELSE 0) + (IF id \in active_ps THEN 1 ELSE 0)
        + (IF id \in old_ps THEN 1 ELSE 0)

\* C20 (no submission lost or duplicated): when the monitor thread is
\* between two iterations of its loop, every id schedule_process has returned
\* is in exactly one of the queue, the active set and the old set.
C20_NoSubmissionLost ==
    mon_pc = "walk" => \A id \in used : Holders(id) = 1

====
